---- MODULE Spec2Model ----
(***************************************************************************)
(* Model of tchardin/quarry.                                               *)
(*   src/src/lib.rs          Quarry: a page store over the Marble heap     *)
(*   src/wiresaw/src/lib.rs  ChunkReader and DagBuilder                    *)
(* Option<T> is written as a sequence: None is <<>>, Some(x) is <<x>>.     *)
(* Vec<u8> is a sequence of numbers.  BTreeMap<K, V> is a function whose   *)
(* DOMAIN is the set of keys.                                              *)
(***************************************************************************)
EXTENDS Integers, Sequences, FiniteSets, TLC

VARIABLES
    heap,       \* Marble: object id -> Option<Vec<u8>> (the stored objects)
    dead,       \* Marble: stats().dead_objects, the superseded versions on disk
    status,     \* "closed", "open" (a Quarry handle exists) or "panicked"
    index,      \* Quarry.index of the open handle
    origin,     \* what the heap directory held before the first open
    last,       \* the last call on the store and what it returned
    expect,     \* per key bytes: the value of the last write that returned Ok
    uncertain,  \* keys whose last write call returned Err
    inner,      \* ChunkReader.inner: the bytes of the source so far, and how
                \* many of them have been read
    chunk_size, \* ChunkReader.chunk_size
    content_size, \* ChunkReader.content_size
    rem_size,   \* ChunkReader.rem_size
    build,      \* "debug" (overflow checks on) or "release" (wrapping)
    yielded,    \* the chunks next has returned, in order
    cr,         \* the last result of next and what the source has done so far
    chunks,     \* DagBuilder.chunks: the chunks not yet pulled
    node,       \* the Node that trickle builds (its links)
    store,      \* DagBuilder.store: Cid -> block
    calls,      \* the put_keyed calls trickle has made on the store, in order
    trickle,    \* where trickle is, its input and what it returned
    twin,       \* a second DagBuilder with a store of its own
    writers     \* the calls of mutate in progress, when callers are not
                \* serialized, and the order of their heap accesses

qvars == <<heap, dead, status, index, origin, last, expect, uncertain>>
cvars == <<inner, chunk_size, content_size, rem_size, build, yielded, cr>>
dvars == <<chunks, node, store, calls, trickle>>
tvars == <<twin>>
wvars == <<writers>>

vars == <<qvars, cvars, dvars, tvars, wvars>>

-----------------------------------------------------------------------------
(* Bounds of the model *)

\* heap object ids are 1..MaxOid
MaxOid == 4
\* writes stop once this many dead versions are on disk
MaxDead == 4

None == <<>>
Some(x) == <<x>>

ObjectIds == 1..MaxOid

-----------------------------------------------------------------------------
(* Keys and blocks *)

INDEX_OBJECT_ID == 1

\* The Cids the callers use: version 1, codec raw (0x55) or dag-cbor (0x71),
\* a sha2-256 multihash whose digest is shortened to one byte.
Cids ==
    { [codec |-> 85, digest |-> <<1>>],
      [codec |-> 113, digest |-> <<2>>] }

\* Cid::to_bytes: version, codec, multihash code (0x12), digest length, digest
ToBytes(k) == <<1, k.codec, 18, Len(k.digest)>> \o k.digest

KeyBytes == { ToBytes(k) : k \in Cids }

Blocks == { <<7>>, <<8, 9>> }

\* Ord for Vec<u8>: lexicographic
RECURSIVE LexLeq(_, _)
LexLeq(a, b) ==
    IF a = <<>> THEN TRUE
    ELSE IF b = <<>> THEN FALSE
    ELSE IF a[1] < b[1] THEN TRUE
    ELSE IF a[1] > b[1] THEN FALSE
    ELSE LexLeq(Tail(a), Tail(b))

MinKey(S) == CHOOSE m \in S : \A x \in S : LexLeq(m, x)
MaxKey(S) == CHOOSE m \in S : \A x \in S : LexLeq(x, m)

\* the keys of a BTreeMap in iteration order
RECURSIVE SortKeys(_)
SortKeys(S) ==
    IF S = {} THEN <<>>
    ELSE LET m == MinKey(S) IN <<m>> \o SortKeys(S \ {m})

EmptyMap == [k \in {} |-> 0]

MapInsert(m, k, v) == [x \in DOMAIN m \cup {k} |-> IF x = k THEN v ELSE m[x]]
MapRemove(m, k) == [x \in DOMAIN m \ {k} |-> m[x]]
MapGet(m, k) == IF k \in DOMAIN m THEN Some(m[k]) ELSE None

-----------------------------------------------------------------------------
(* bincode: fields in declaration order, a map as its entries in key order *)

MapEntries(m) ==
    LET ks == SortKeys(DOMAIN m)
    IN  [i \in 1..Len(ks) |-> <<ks[i], m[ks[i]]>>]

\* a later entry for the same key replaces an earlier one
EntriesMap(es) ==
    [k \in { es[i][1] : i \in DOMAIN es } |->
        LET i == CHOOSE i \in DOMAIN es :
                    /\ es[i][1] = k
                    /\ \A j \in DOMAIN es : es[j][1] = k => j <= i
        IN  es[i][2]]

SerializeIndex(ix) == <<MapEntries(ix.pages), ix.last_pid>>
DeserializeIndex(d) == [pages |-> EntriesMap(d[1]), last_pid |-> d[2]]

SerializePage(p) == <<p.hi, p.lo, MapEntries(p.kvs)>>
DeserializePage(d) == [hi |-> d[1], lo |-> d[2], kvs |-> EntriesMap(d[3])]

IndexDefault == [pages |-> EmptyMap, last_pid |-> INDEX_OBJECT_ID + 1]

\* a bug open could have: the first page starts at the version byte of a Cid
InitPageAtVersionByte == [hi |-> None, lo |-> <<1>>, kvs |-> EmptyMap]

InitPage == [hi |-> None, lo |-> <<>>, kvs |-> EmptyMap]

-----------------------------------------------------------------------------
(* The Marble heap, as the Quarry uses it *)

EmptyHeap == [id \in ObjectIds |-> None]

HeapRead(h, id) == h[id]

\* write_batch: every entry of the batch is applied, or (on failure) none
HeapWriteBatch(h, batch) ==
    [id \in ObjectIds |-> IF id \in DOMAIN batch THEN batch[id] ELSE h[id]]

\* the versions a batch supersedes
Superseded(h, batch) == Cardinality({ id \in DOMAIN batch : h[id] # None })

\* stats().live_objects
LiveObjects(h) == Cardinality({ id \in ObjectIds : h[id] # None })

Stats(h, d) == [live_objects |-> LiveObjects(h), dead_objects |-> d]

-----------------------------------------------------------------------------
(* Quarry *)

\* Quarry::pid_for_key before its unwrap: the entry with the greatest low
\* bound <= key, None when there is none
PidForKey(ix, key) ==
    LET below == { lo \in DOMAIN ix.pages : LexLeq(lo, key) }
    IN  IF below = {} THEN None ELSE Some(ix.pages[MaxKey(below)])

\* a bug allocate_page could have: the id is taken without the increment
AllocatePageNoIncrement(ix, page) ==
    LET object_id == ix.last_pid
        newix == [pages |-> MapInsert(ix.pages, page.lo, object_id),
                  last_pid |-> object_id]
    IN  [index |-> newix,
         object_id |-> object_id,
         previous_is_none |-> page.lo \notin DOMAIN ix.pages,
         batch |-> (INDEX_OBJECT_ID :> Some(SerializeIndex(newix)))
                   @@ (object_id :> Some(SerializePage(page)))]

\* Quarry::allocate_page up to its write_batch call: the index after the
\* increment and the insert, the id taken, whether the assert holds, and the
\* batch handed to the heap
AllocatePage(ix, page) ==
    LET object_id == ix.last_pid + 1
        newix == [pages |-> MapInsert(ix.pages, page.lo, object_id),
                  last_pid |-> object_id]
    IN  [index |-> newix,
         object_id |-> object_id,
         previous_is_none |-> page.lo \notin DOMAIN ix.pages,
         batch |-> (INDEX_OBJECT_ID :> Some(SerializeIndex(newix)))
                   @@ (object_id :> Some(SerializePage(page)))]

\* a bug allocate_page could have: the batch holds the Index and not the page
AllocateCommitIndexOnly(h, alloc, ok) ==
    IF ok
    THEN HeapWriteBatch(h, (INDEX_OBJECT_ID :> alloc.batch[INDEX_OBJECT_ID]))
    ELSE h

\* a bug allocate_page could have: the page goes to the heap in a batch of its
\* own, before the batch that holds the Index
AllocateCommitTwoBatches(h, alloc, ok) ==
    IF ok THEN HeapWriteBatch(h, alloc.batch)
    ELSE HeapWriteBatch(h, (alloc.object_id :> alloc.batch[alloc.object_id]))

\* the heap after allocate_page's write_batch call, which succeeded or failed
AllocateCommit(h, alloc, ok) ==
    IF ok THEN HeapWriteBatch(h, alloc.batch) ELSE h

\* a bug mutate could have: the page is built anew from the one entry
MutatePageFromScratch(leaf, key, value) ==
    IF value # None
    THEN [leaf EXCEPT !.kvs = MapInsert(EmptyMap, key, value[1])]
    ELSE [leaf EXCEPT !.kvs = EmptyMap]

\* a bug mutate could have: a delete that leaves the map as it is
MutatePageKeepOnRemove(leaf, key, value) ==
    IF value # None
    THEN [leaf EXCEPT !.kvs = MapInsert(@, key, value[1])]
    ELSE leaf

\* Quarry::mutate: the page after the insert or the remove
MutatePage(leaf, key, value) ==
    IF value # None
    THEN [leaf EXCEPT !.kvs = MapInsert(@, key, value[1])]
    ELSE [leaf EXCEPT !.kvs = MapRemove(@, key)]

\* a bug mutate could have: maintenance as soon as dead reaches live
NeedsMaintenanceAtEqual(stats) == stats.dead_objects >= stats.live_objects

\* Quarry::mutate: the test that decides on heap.maintenance()
NeedsMaintenance(stats) == stats.dead_objects > stats.live_objects

Result(op, key, res) ==
    [op |-> op, key |-> key, res |-> res, val |-> None,
     alloc |-> FALSE, committed |-> FALSE, stats |-> None, maint |-> FALSE]

\* a panic ends the caller: no call follows it
Panics(op, key) ==
    /\ status' = "panicked"
    /\ last' = Result(op, key, "panic")
    /\ UNCHANGED <<heap, dead, index, origin, expect, uncertain>>

\* a bug open could have: the first page is allocated at every open
NeedsBootstrapAlways(ix) == TRUE

\* Quarry::open: qry.index.pages.is_empty()
NeedsBootstrap(ix) == DOMAIN ix.pages = {}

\* Quarry::open.  marble::open or the read of the Index may fail; with no
\* page in the Index the first page is allocated, and that batch may fail.
\* allocate_page asserts that the low bound of the page is new to the Index.
Open ==
    /\ status = "closed"
    /\ \E oc \in {"ok", "open_err", "read_err", "batch_err"} :
        LET data == HeapRead(heap, INDEX_OBJECT_ID)
            loaded == IF data # None THEN DeserializeIndex(data[1])
                      ELSE IndexDefault
            boot == NeedsBootstrap(loaded)
            alloc == AllocatePage(loaded, InitPage)
        IN  /\ oc = "batch_err" => boot
            /\ boot => alloc.object_id <= MaxOid
            /\ IF oc \in {"open_err", "read_err"}
               THEN /\ last' = Result("open", <<>>, oc)
                    /\ UNCHANGED <<heap, dead, status, index>>
               ELSE IF ~boot
               THEN /\ status' = "open"
                    /\ index' = loaded
                    /\ last' = Result("open", <<>>, "ok")
                    /\ UNCHANGED <<heap, dead>>
               ELSE IF ~alloc.previous_is_none
               THEN /\ status' = "panicked"
                    /\ last' = [Result("open", <<>>, "panic") EXCEPT !.alloc = TRUE]
                    /\ UNCHANGED <<heap, dead, index>>
               ELSE /\ heap' = AllocateCommit(heap, alloc, oc = "ok")
                    /\ dead' = IF oc = "ok" THEN dead + Superseded(heap, alloc.batch)
                               ELSE dead
                    /\ status' = IF oc = "ok" THEN "open" ELSE "closed"
                    /\ index' = IF oc = "ok" THEN alloc.index ELSE index
                    /\ last' = [Result("open", <<>>, oc) EXCEPT
                                    !.alloc = TRUE, !.committed = (oc = "ok")]
    /\ UNCHANGED <<origin, expect, uncertain>>
    /\ UNCHANGED <<cvars, dvars, tvars, wvars>>

\* the handle is dropped; the heap directory stays
Close ==
    /\ status = "open"
    /\ status' = "closed"
    /\ index' = IndexDefault
    /\ last' = Result("close", <<>>, "ok")
    /\ UNCHANGED <<heap, dead, origin, expect, uncertain>>
    /\ UNCHANGED <<cvars, dvars, tvars, wvars>>

\* Quarry::mutate, called by put_keyed (value = Some(block)) and by
\* delete_block (value = None)
Mutate(op, key, value) ==
    /\ status = "open"
    /\ dead < MaxDead
    /\ UNCHANGED <<cvars, dvars, tvars, wvars>>
    /\ LET pid == PidForKey(index, key)
       IN  IF pid = None THEN Panics(op, key)
           ELSE \E oc \in {"ok", "read_err", "batch_err", "maint_err"} :
             LET data == HeapRead(heap, pid[1])
             IN  IF oc = "read_err"
                 THEN /\ last' = Result(op, key, oc)
                      /\ uncertain' = uncertain \cup {key}
                      /\ UNCHANGED <<heap, dead, status, index, origin, expect>>
                 ELSE IF data = None THEN Panics(op, key)
                 ELSE IF oc = "batch_err"
                 THEN /\ last' = Result(op, key, oc)
                      /\ uncertain' = uncertain \cup {key}
                      /\ UNCHANGED <<heap, dead, status, index, origin, expect>>
                 ELSE
                   LET leaf == DeserializePage(data[1])
                       batch == (pid[1] :> Some(SerializePage(MutatePage(leaf, key, value))))
                       h2 == HeapWriteBatch(heap, batch)
                       d2 == dead + Superseded(heap, batch)
                       stats == Stats(h2, d2)
                       maint == NeedsMaintenance(stats)
                   IN  /\ oc = "maint_err" => maint
                       /\ heap' = h2
                       /\ dead' \in (IF maint THEN 0..d2 ELSE {d2})
                       /\ last' = [Result(op, key, oc) EXCEPT
                                       !.committed = TRUE,
                                       !.stats = Some(stats), !.maint = maint]
                       /\ IF oc = "ok"
                          THEN /\ expect' = [expect EXCEPT ![key] = value]
                               /\ uncertain' = uncertain \ {key}
                          ELSE /\ expect' = expect
                               /\ uncertain' = uncertain \cup {key}
                       /\ UNCHANGED <<status, index, origin>>

\* Blockstore::put_keyed for Quarry
PutKeyed == \E k \in Cids, block \in Blocks : Mutate("put_keyed", ToBytes(k), Some(block))

\* Blockstore::delete_block for Quarry
DeleteBlock == \E k \in Cids : Mutate("delete_block", ToBytes(k), None)

\* Blockstore::get for Quarry
Get ==
    /\ status = "open"
    /\ UNCHANGED <<cvars, dvars, tvars, wvars>>
    /\ \E k \in Cids, oc \in {"ok", "read_err"} :
        LET kd == ToBytes(k)
            pid == PidForKey(index, kd)
        IN  IF pid = None THEN Panics("get", kd)
            ELSE IF oc = "read_err"
            THEN /\ last' = Result("get", kd, oc)
                 /\ UNCHANGED <<heap, dead, status, index, origin, expect, uncertain>>
            ELSE IF HeapRead(heap, pid[1]) = None THEN Panics("get", kd)
            ELSE /\ last' = [Result("get", kd, "ok") EXCEPT
                                !.val = MapGet(DeserializePage(HeapRead(heap, pid[1])[1]).kvs, kd)]
                 /\ UNCHANGED <<heap, dead, status, index, origin, expect, uncertain>>

\* what Blockstore::get returns for key on heap h under Index ix: None,
\* Some(block), or Some(<<-1>>) where one of its unwraps panics
GetValue(h, ix, key) ==
    LET pid == PidForKey(ix, key)
    IN  IF pid = None THEN Some(<<-1>>)
        ELSE IF HeapRead(h, pid[1]) = None THEN Some(<<-1>>)
        ELSE MapGet(DeserializePage(HeapRead(h, pid[1])[1]).kvs, key)

\* Quarry::open: the Index an open loads from the heap, Index::default when
\* the heap has no Index object
PersistedIndex(h) ==
    IF HeapRead(h, INDEX_OBJECT_ID) # None
    THEN DeserializeIndex(HeapRead(h, INDEX_OBJECT_ID)[1])
    ELSE IndexDefault

\* the heap object ids an Index lists
PageIds(ix) == { ix.pages[lo] : lo \in DOMAIN ix.pages }

\* a heap directory whose Index names a page object that is not there
DanglingHeap ==
    [EmptyHeap EXCEPT ![INDEX_OBJECT_ID] =
        Some(SerializeIndex([pages |-> (<<>> :> 3), last_pid |-> 3]))]

QuarryInit ==
    /\ origin \in {"fresh", "dangling"}
    /\ heap = IF origin = "fresh" THEN EmptyHeap ELSE DanglingHeap
    /\ dead = 0
    /\ status = "closed"
    /\ index = IndexDefault
    /\ last = Result("none", <<>>, "ok")
    /\ expect = [k \in KeyBytes |-> None]
    /\ uncertain = {}

\* the store is not in use (the ChunkReader and DagBuilder specifications)
QuarryIdle ==
    /\ origin = "fresh"
    /\ heap = EmptyHeap
    /\ dead = 0
    /\ status = "closed"
    /\ index = IndexDefault
    /\ last = Result("none", <<>>, "ok")
    /\ expect = [k \in KeyBytes |-> None]
    /\ uncertain = {}

-----------------------------------------------------------------------------
(* ChunkReader *)

\* the longest source
MaxSrc == 3
\* the largest chunk size
MaxChunk == 2
\* u64 and usize are modelled by words of WordBits bits
WordBits == 8

Modulus == 2 ^ WordBits

Bytes == {1, 2}

RECURSIVE SeqsUpTo(_, _)
SeqsUpTo(S, n) ==
    IF n = 0 THEN { <<>> }
    ELSE LET shorter == SeqsUpTo(S, n - 1)
         IN  shorter \cup { Append(q, x) : q \in { r \in shorter : Len(r) = n - 1 }, x \in S }

Min(a, b) == IF a < b THEN a ELSE b

CrState(res) == [res |-> res, eof |-> FALSE, err |-> FALSE, short |-> FALSE,
                 resumed |-> FALSE]

\* ChunkReader::with_chunk_size
ChunkInit ==
    /\ inner \in { [data |-> d, pos |-> 0] : d \in SeqsUpTo(Bytes, MaxSrc) }
    /\ chunk_size \in 1..MaxChunk
    /\ content_size = 0
    /\ rem_size = 0
    /\ build \in {"debug", "release"}
    /\ yielded = <<>>
    /\ cr = CrState("new")

\* no ChunkReader is in use (the Quarry and DagBuilder specifications)
ChunkIdle ==
    /\ inner = [data |-> <<>>, pos |-> 0]
    /\ chunk_size = 1
    /\ content_size = 0
    /\ rem_size = 0
    /\ build = "release"
    /\ yielded = <<>>
    /\ cr = CrState("new")

\* ChunkReader::set_chunk_size, before the iteration starts
SetChunkSize ==
    /\ cr.res = "new"
    /\ \E size \in 1..MaxChunk :
        /\ size # chunk_size
        /\ chunk_size' = size
    /\ UNCHANGED <<inner, content_size, rem_size, build, yielded, cr>>
    /\ UNCHANGED <<qvars, dvars, tvars, wvars>>

\* ChunkReader::set_content_size, before the iteration starts
SetContentSize ==
    /\ cr.res = "new"
    /\ \E size \in 1..(MaxSrc + 1) :
        /\ size # content_size
        /\ content_size' = size
        /\ rem_size' = size
    /\ UNCHANGED <<inner, chunk_size, build, yielded, cr>>
    /\ UNCHANGED <<qvars, dvars, tvars, wvars>>

\* vec![0u8; chunk_size] after inner.read has put n bytes into it
ReadInto(src, size, n) ==
    [i \in 1..size |-> IF i <= n THEN src.data[src.pos + i] ELSE 0]

\* a bug next could have: the chunk keeps the length of the buffer
ChunkOfUntruncated(buf, n) == buf

\* ChunkReader::next: chunk.resize(n, 0) when n != chunk_size
ChunkOf(buf, n) == IF n # Len(buf) THEN SubSeq(buf, 1, n) ELSE buf

\* a bug next could have: an I/O error handled as the end of the stream
RemAfterErrorAsEof(rem) == 0

\* ChunkReader::next: rem_size when the read returned Err
RemAfterError(rem) == rem

\* ChunkReader::size_hint
SizeHint(rem, size) ==
    IF rem = 0 THEN <<0, Some(0)>>
    ELSE <<rem \div size, Some(rem \div size)>>

\* Iterator::next for ChunkReader.  The read returns Err, or Ok(n) with
\* n = 0 when no byte is left and 1 <= n <= min(chunk_size, bytes left)
\* otherwise.  rem_size -= n underflows when n > rem_size: a panic with
\* overflow checks, a wrap without them.
ChunkNext ==
    /\ cr.res # "panic"
    /\ LET left == Len(inner.data) - inner.pos
       IN  \E n \in (IF left = 0 THEN {0} ELSE 1..Min(chunk_size, left)) \cup {-1} :
            IF n = -1
            THEN /\ cr' = [cr EXCEPT !.res = "err", !.err = TRUE]
                 /\ rem_size' = RemAfterError(rem_size)
                 /\ UNCHANGED <<inner, yielded>>
            ELSE IF n = 0
            THEN /\ cr' = [cr EXCEPT !.res = "eof", !.eof = TRUE]
                 /\ rem_size' = 0
                 /\ UNCHANGED <<inner, yielded>>
            ELSE /\ inner' = [inner EXCEPT !.pos = @ + n]
                 /\ IF rem_size < n /\ build = "debug"
                    THEN /\ cr' = [cr EXCEPT !.res = "panic"]
                         /\ UNCHANGED <<rem_size, yielded>>
                    ELSE /\ rem_size' = (rem_size - n) % Modulus
                         /\ yielded' = Append(yielded,
                                ChunkOf(ReadInto(inner, chunk_size, n), n))
                         /\ cr' = [cr EXCEPT !.res = "some",
                                     !.short = @ \/ n < Min(chunk_size, left)]
    /\ UNCHANGED <<chunk_size, content_size, build>>
    /\ UNCHANGED <<qvars, dvars, tvars, wvars>>

\* the source has bytes again after a read that returned 0 (a file that was
\* appended to, a pipe that was written to)
SourceResumes ==
    /\ cr.res = "eof"
    /\ Len(inner.data) < MaxSrc
    /\ \E b \in Bytes : inner' = [inner EXCEPT !.data = Append(@, b)]
    /\ cr' = [cr EXCEPT !.resumed = TRUE]
    /\ UNCHANGED <<chunk_size, content_size, rem_size, build, yielded>>
    /\ UNCHANGED <<qvars, dvars, tvars, wvars>>

-----------------------------------------------------------------------------
(* DagBuilder *)

\* no DagBuilder is in use (the Quarry and ChunkReader specifications)
DagIdle ==
    /\ chunks = <<>>
    /\ node = [data |-> None, links |-> <<>>]
    /\ store = EmptyMap
    /\ calls = <<>>
    /\ trickle = [pc |-> "idle", input |-> <<>>, info |-> None]

\* the most chunks a builder is given
MaxLeaves == 3

\* the chunks a sequence is made of
ChunkVals == { <<1>>, <<2>>, <<1, 2>> }

DAG_CBOR == 113

\* Code::Sha2_256.digest: the digest stands for the bytes it was made from,
\* so two digests are equal exactly when their inputs are (no collisions)
Sha256(data) == [code |-> 18, of |-> data]

\* Cid::new_v1
NewV1(codec, hash) == [version |-> 1, codec |-> codec, hash |-> hash]

\* a bug trickle could have: only the head of the chunk is hashed
LeafCidOfHead(data) == NewV1(85, Sha256(SubSeq(data, 1, 1)))

\* DagBuilder::trickle: the Cid of a chunk, codec raw (0x55)
LeafCid(data) == NewV1(85, Sha256(data))

\* impl From<Cid> for Link
LinkFrom(cid) == [cid |-> cid, name |-> None, size |-> None]

\* Node::with_links_cap
WithLinksCap == [data |-> None, links |-> <<>>]

\* the field of an Option that skip_serializing_if leaves out when None
OptField(name, opt) == IF opt = None THEN <<>> ELSE << <<name, opt[1]>> >>

\* serde_ipld_dagcbor::to_vec of a Link: a map of the fields that are present
EncodeLink(l) ==
    << <<"cid", l.cid>> >> \o OptField("name", l.name) \o OptField("size", l.size)

\* a bug the encoding could have: a count kept by the process (the store
\* calls made so far by every builder) goes into the data field of the root
EncodeNodeStamped(n) ==
    OptField("data", Some(<<Len(calls) + Len(twin.calls)>>))
        \o << <<"links", [i \in 1..Len(n.links) |-> EncodeLink(n.links[i])]>> >>

\* serde_ipld_dagcbor::to_vec of a Node
EncodeNode(n) ==
    OptField("data", n.data)
        \o << <<"links", [i \in 1..Len(n.links) |-> EncodeLink(n.links[i])]>> >>

\* the value of a field of an encoded map, None when the field is left out
FieldOf(enc, name) ==
    IF \E i \in DOMAIN enc : enc[i][1] = name
    THEN Some(enc[CHOOSE i \in DOMAIN enc : enc[i][1] = name][2])
    ELSE None

\* the Node an encoded root descriptor decodes to
DecodeNode(enc) ==
    [data |-> FieldOf(enc, "data"),
     links |-> LET ls == FieldOf(enc, "links")[1]
               IN  [i \in 1..Len(ls) |->
                      [cid |-> FieldOf(ls[i], "cid")[1],
                       name |-> FieldOf(ls[i], "name"),
                       size |-> FieldOf(ls[i], "size")]]]

\* enc.len(): the map head and the "links" key and array head (8 bytes), and
\* per link a map head, the "cid" key, tag 42 and the 37-byte string of a
\* sha2-256 CIDv1 (46 bytes)
EncodedLen(enc) == 8 + 46 * Len(FieldOf(enc, "links")[1])

\* a bug trickle could have: the result of a leaf's put_keyed is dropped
AfterLeafPutIgnoringError(ok) == "loop"

\* DagBuilder::trickle: the ? after the put_keyed of a leaf
AfterLeafPut(ok) == IF ok THEN "loop" ELSE "failed"

\* DagBuilder::new, with trickle entered
DagInit ==
    /\ chunks \in SeqsUpTo(ChunkVals, MaxLeaves)
    /\ node = WithLinksCap
    /\ store = EmptyMap
    /\ calls = <<>>
    /\ trickle = [pc |-> "loop", input |-> chunks, info |-> None]

\* one turn of the while loop of trickle: the next chunk is pulled, hashed
\* and put in the store (which may fail), and its link is pushed
TrickleLeaf ==
    /\ trickle.pc = "loop"
    /\ chunks # <<>>
    /\ \E ok \in BOOLEAN :
        LET data == Head(chunks)
            cid == LeafCid(data)
        IN  /\ chunks' = Tail(chunks)
            /\ calls' = Append(calls, [k |-> cid, block |-> data, ok |-> ok])
            /\ store' = IF ok THEN MapInsert(store, cid, data) ELSE store
            /\ node' = IF ok THEN [node EXCEPT !.links = Append(@, LinkFrom(cid))]
                       ELSE node
            /\ trickle' = [trickle EXCEPT !.pc = AfterLeafPut(ok)]
    /\ UNCHANGED <<qvars, cvars, tvars, wvars>>

\* the end of trickle: chunks.next() returned None; the root is encoded,
\* hashed and put in the store (which may fail), and the DagInfo is returned
TrickleRoot ==
    /\ trickle.pc = "loop"
    /\ chunks = <<>>
    /\ \E ok \in BOOLEAN :
        LET enc == EncodeNode(node)
            root == NewV1(DAG_CBOR, Sha256(enc))
        IN  /\ calls' = Append(calls, [k |-> root, block |-> enc, ok |-> ok])
            /\ store' = IF ok THEN MapInsert(store, root, enc) ELSE store
            /\ trickle' =
                IF ok
                THEN [trickle EXCEPT !.pc = "done",
                        !.info = Some([root |-> root,
                                       leaves |-> Len(node.links),
                                       root_size |-> EncodedLen(enc)])]
                ELSE [trickle EXCEPT !.pc = "failed"]
    /\ UNCHANGED <<chunks, node>>
    /\ UNCHANGED <<qvars, cvars, tvars, wvars>>

\* DagBuilder::new for a second builder over the same chunks, with a store
\* of its own, trickle entered
TwinInit ==
    twin = [chunks |-> chunks, node |-> WithLinksCap, store |-> EmptyMap,
            calls |-> <<>>, pc |-> "loop", info |-> None]

\* one turn of the while loop of trickle, in the second builder
TwinLeaf ==
    /\ twin.pc = "loop"
    /\ twin.chunks # <<>>
    /\ \E ok \in BOOLEAN :
        LET data == Head(twin.chunks)
            cid == LeafCid(data)
        IN  twin' = [twin EXCEPT
                !.chunks = Tail(@),
                !.calls = Append(@, [k |-> cid, block |-> data, ok |-> ok]),
                !.store = IF ok THEN MapInsert(@, cid, data) ELSE @,
                !.node = IF ok THEN [@ EXCEPT !.links = Append(@, LinkFrom(cid))]
                         ELSE @,
                !.pc = AfterLeafPut(ok)]
    /\ UNCHANGED <<qvars, cvars, dvars, wvars>>

\* the end of trickle, in the second builder
TwinRoot ==
    /\ twin.pc = "loop"
    /\ twin.chunks = <<>>
    /\ \E ok \in BOOLEAN :
        LET enc == EncodeNode(twin.node)
            root == NewV1(DAG_CBOR, Sha256(enc))
        IN  twin' = [twin EXCEPT
                !.calls = Append(@, [k |-> root, block |-> enc, ok |-> ok]),
                !.store = IF ok THEN MapInsert(@, root, enc) ELSE @,
                !.pc = IF ok THEN "done" ELSE "failed",
                !.info = IF ok
                         THEN Some([root |-> root,
                                    leaves |-> Len(twin.node.links),
                                    root_size |-> EncodedLen(enc)])
                         ELSE @]
    /\ UNCHANGED <<qvars, cvars, dvars, wvars>>

\* no second DagBuilder is in use
TwinIdle == twin = [chunks |-> <<>>, node |-> WithLinksCap, store |-> EmptyMap,
                    calls |-> <<>>, pc |-> "idle", info |-> None]

-----------------------------------------------------------------------------
(* Two callers of mutate on one open handle, not serialized *)

\* the threads that share the handle (&self)
Threads == {1, 2}

\* a call of put_keyed (value = Some(block)) or delete_block (value = None)
\* that has not yet read its page
ConcCalls ==
    { [pc |-> "start", key |-> k, value |-> v, held |-> None, res |-> "none"] :
        k \in KeyBytes, v \in {None} \cup { Some(b) : b \in Blocks } }

\* a store mutate could be: the page is read again at commit time, under a lock
PageAtCommitReread(held, h, pid) == DeserializePage(HeapRead(h, pid)[1])

\* Quarry::mutate: the page it changes and commits is the one it
\* deserialized after its read
PageAtCommit(held, h, pid) == held

\* a handle opened on an empty heap directory, shared by two threads that
\* each have one call to make
ConcInit ==
    LET alloc == AllocatePage(IndexDefault, InitPage)
    IN  /\ origin = "fresh"
        /\ heap = AllocateCommit(EmptyHeap, alloc, TRUE)
        /\ dead = 0
        /\ status = "open"
        /\ index = alloc.index
        /\ last = [Result("open", <<>>, "ok") EXCEPT !.alloc = TRUE, !.committed = TRUE]
        /\ expect = [k \in KeyBytes |-> None]
        /\ uncertain = {}
        /\ writers \in { [call |-> c, log |-> <<>>] : c \in [Threads -> ConcCalls] }

\* Quarry::mutate of thread t up to the deserialize: pid_for_key, heap.read
\* (which may fail) and its unwrap
ConcRead(t) ==
    /\ writers.call[t].pc = "start"
    /\ \E oc \in {"ok", "read_err"} :
        LET c == writers.call[t]
            pid == PidForKey(index, c.key)
        IN  IF pid = None
            THEN writers' = [writers EXCEPT !.call[t].pc = "done", !.call[t].res = "panic"]
            ELSE IF oc = "read_err"
            THEN writers' = [writers EXCEPT !.call[t].pc = "done", !.call[t].res = oc]
            ELSE IF HeapRead(heap, pid[1]) = None
            THEN writers' = [writers EXCEPT !.call[t].pc = "done", !.call[t].res = "panic"]
            ELSE writers' = [writers EXCEPT
                    !.call[t].pc = "read",
                    !.call[t].held = Some(DeserializePage(HeapRead(heap, pid[1])[1])),
                    !.log = Append(@, <<t, "read">>)]
    /\ UNCHANGED <<qvars, cvars, dvars, tvars>>

\* Quarry::mutate of thread t from the insert or remove to its return: the
\* single-object write_batch (which may fail), stats and maintenance
ConcCommit(t) ==
    /\ writers.call[t].pc = "read"
    /\ \E oc \in {"ok", "batch_err"} :
        LET c == writers.call[t]
            pid == PidForKey(index, c.key)[1]
            leaf == PageAtCommit(c.held[1], heap, pid)
            batch == (pid :> Some(SerializePage(MutatePage(leaf, c.key, c.value))))
            h2 == HeapWriteBatch(heap, batch)
            d2 == dead + Superseded(heap, batch)
        IN  IF oc = "batch_err"
            THEN /\ writers' = [writers EXCEPT !.call[t].pc = "done", !.call[t].res = oc]
                 /\ UNCHANGED <<heap, dead>>
            ELSE /\ heap' = h2
                 /\ dead' \in (IF NeedsMaintenance(Stats(h2, d2)) THEN 0..d2 ELSE {d2})
                 /\ writers' = [writers EXCEPT
                        !.call[t].pc = "done", !.call[t].res = "ok",
                        !.log = Append(@, <<t, "commit">>)]
    /\ UNCHANGED <<status, index, origin, last, expect, uncertain>>
    /\ UNCHANGED <<cvars, dvars, tvars>>

\* the callers of the Quarry are serialized
WritersIdle == writers = [call |-> <<>>, log |-> <<>>]

-----------------------------------------------------------------------------
(* Specifications *)

Idle == TwinIdle /\ WritersIdle

Init == QuarryInit /\ ChunkIdle /\ DagIdle /\ Idle

Next ==
    \/ Open
    \/ Close
    \/ PutKeyed
    \/ DeleteBlock
    \/ Get

\* the Quarry, its callers serialized
Spec == Init /\ [][Next]_vars

InitChunk == QuarryIdle /\ ChunkInit /\ DagIdle /\ Idle

NextChunk ==
    \/ SetChunkSize
    \/ SetContentSize
    \/ ChunkNext
    \/ SourceResumes

\* a ChunkReader over a source
SpecChunk == InitChunk /\ [][NextChunk]_vars

InitDag == QuarryIdle /\ ChunkIdle /\ DagInit /\ Idle

NextDag ==
    \/ TrickleLeaf
    \/ TrickleRoot

\* a DagBuilder over a sequence of chunks and a store of its own
SpecDag == InitDag /\ [][NextDag]_vars

InitTwin == QuarryIdle /\ ChunkIdle /\ DagInit /\ TwinInit /\ WritersIdle

NextTwin ==
    \/ TrickleLeaf
    \/ TrickleRoot
    \/ TwinLeaf
    \/ TwinRoot

\* two DagBuilders over the same sequence of chunks, each with its own store
SpecTwin == InitTwin /\ [][NextTwin]_vars

InitConc == ConcInit /\ ChunkIdle /\ DagIdle /\ TwinIdle

NextConc ==
    \/ \E t \in Threads : ConcRead(t)
    \/ \E t \in Threads : ConcCommit(t)

\* two threads call put_keyed or delete_block on one handle with no lock
\* around the calls
SpecConc == InitConc /\ [][NextConc]_vars

-----------------------------------------------------------------------------
(* Properties of the Quarry, checked under Spec *)

IsWrite(r) == r.op \in {"put_keyed", "delete_block"}

\* C1: on a store opened on a fresh heap, a get that returns Ok returns the
\* value of the most recent write of its key that returned Ok: Some(v) after
\* put_keyed(k, v), None after delete_block(k) or when k was never put.
C1_GetReturnsLastWrite ==
    (origin = "fresh" /\ last.op = "get" /\ last.res = "ok"
        /\ last.key \notin uncertain)
    => last.val = expect[last.key]

\* a get returned the block of an earlier put_keyed
C1_Witness ==
    /\ origin = "fresh" /\ last.op = "get" /\ last.res = "ok"
    /\ last.key \notin uncertain
    /\ last.val = Some(<<8, 9>>)
    /\ dead >= 2

\* C5 as stated: after the open of a heap without an Index object, the first
\* page is heap object 2 and is listed under the empty key in the Index
\* stored at object 1.
C5_BootstrapPageIsObjectTwo ==
    (last.op = "open" /\ last.res = "ok" /\ last.alloc)
    => /\ IndexDefault.last_pid = 2
       /\ heap[2] = Some(SerializePage(InitPage))
       /\ index.pages = (<<>> :> 2)
       /\ heap[INDEX_OBJECT_ID] = Some(SerializeIndex(index))

\* C6: when the write_batch of allocate_page fails, the heap is what it was
\* before the call (neither the page nor the Index was written) and open
\* yields no handle.
C6_FailedAllocationWritesNothing ==
    [][(last'.op = "open" /\ last'.res = "batch_err")
        => (heap' = heap /\ status' = "closed")]_vars

\* the bootstrap allocation failed on a heap that has no object
C6_Witness ==
    /\ last.op = "open" /\ last.res = "batch_err" /\ last.alloc
    /\ heap = EmptyHeap
    /\ status = "closed"

\* C7: a write calls heap.maintenance() exactly when its commit succeeded
\* and the stats read after the commit had dead_objects > live_objects; a get
\* and a write whose commit failed never call it.
C7_MaintenanceIffDeadExceedsLive ==
    /\ (IsWrite(last) /\ last.committed)
        => /\ last.stats # None
           /\ last.stats[1].live_objects = LiveObjects(heap)
           /\ last.maint <=>
                (last.stats[1].dead_objects > last.stats[1].live_objects)
    /\ ~last.committed => ~last.maint
    /\ ~IsWrite(last) => ~last.maint

\* a write found more dead than live objects and ran maintenance
C7_Witness ==
    /\ IsWrite(last) /\ last.committed /\ last.maint
    /\ last.stats[1].dead_objects = last.stats[1].live_objects + 1

\* C8 as stated: a get whose key routes to a page object that is not in the
\* heap returns Ok(None).
C8_MissingPageGetReturnsNone ==
    (/\ last.op = "get" /\ last.res # "read_err"
     /\ PidForKey(index, last.key) # None
     /\ HeapRead(heap, PidForKey(index, last.key)[1]) = None)
    => (last.res = "ok" /\ last.val = None)

-----------------------------------------------------------------------------
(* Properties of the ChunkReader, checked under SpecChunk *)

RECURSIVE Concat(_)
Concat(seqs) == IF seqs = <<>> THEN <<>> ELSE Head(seqs) \o Concat(Tail(seqs))

CeilDiv(n, s) == (n + s - 1) \div s

\* next has returned None for a zero-byte read, no read has failed and the
\* source has not grown since: the iteration is at its first None
AtFirstNone == cr.res = "eof" /\ ~cr.err /\ ~cr.resumed

\* ceil(N/S) chunks, each of S bytes but the last, which has N mod S bytes
\* (S when S divides N)
FullChunks(cs, n, s) ==
    /\ Len(cs) = CeilDiv(n, s)
    /\ \A i \in 1..(Len(cs) - 1) : Len(cs[i]) = s
    /\ cs # <<>> => Len(cs[Len(cs)]) = (IF n % s = 0 THEN s ELSE n % s)

\* C2 as stated: at the first None the chunks concatenate to the N bytes of
\* the source and are ceil(N/S) full chunks, whatever the reads returned
\* (short reads included).
C2_FullChunksForAnyReader ==
    AtFirstNone
    => /\ Concat(yielded) = inner.data
       /\ FullChunks(yielded, Len(inner.data), chunk_size)

\* C2 amended: at the first None the chunks concatenate to the N bytes of the
\* source, each chunk has the length its read returned (1..S); they are
\* ceil(N/S) full chunks when no read was short.
C2_ChunksComplete ==
    AtFirstNone
    => /\ Concat(yielded) = inner.data
       /\ \A i \in 1..Len(yielded) :
            Len(yielded[i]) >= 1 /\ Len(yielded[i]) <= chunk_size
       /\ ~cr.short => FullChunks(yielded, Len(inner.data), chunk_size)

\* three bytes in chunks of two were read to the end without a short read
C2_Witness ==
    /\ AtFirstNone /\ ~cr.short
    /\ Len(inner.data) = 3 /\ chunk_size = 2
    /\ Len(yielded) = 2 /\ Len(yielded[2]) = 1

\* C9 as stated: once next has returned None for a zero-byte read, no later
\* call of next returns anything but None.
C9_EndOfStreamIsPermanent == cr.eof => cr.res \in {"eof", "err"}

-----------------------------------------------------------------------------
(* Properties of the DagBuilder, checked under SpecDag *)

IsRootCid(k) == k.codec = DAG_CBOR

\* C3: when trickle returns Ok over P chunks, the root stored under the
\* returned Cid has P links, the i-th link holds the raw sha2-256 Cid of the
\* i-th chunk, and the DagInfo counts P leaves (P = 0 included).
C3_RootLinksEveryChunk ==
    trickle.pc = "done"
    => /\ trickle.info # None
       /\ trickle.info[1].root \in DOMAIN store
       /\ LET root == DecodeNode(store[trickle.info[1].root])
              P == Len(trickle.input)
          IN  /\ Len(root.links) = P
              /\ \A i \in 1..P :
                    root.links[i].cid = NewV1(85, Sha256(trickle.input[i]))
              /\ trickle.info[1].leaves = P

\* a root over three chunks, the first and the last of them equal
C3_Witness ==
    /\ trickle.pc = "done"
    /\ Len(trickle.input) = 3
    /\ trickle.input[1] = trickle.input[3]
    /\ trickle.input[1] # trickle.input[2]
    /\ Cardinality(DOMAIN store) = 3

\* C4: a put_keyed that fails is the last call trickle makes and trickle
\* returns no DagInfo; the chunks after the failing one are never pulled,
\* no root is stored when a leaf failed, and the leaves stored before the
\* failure are still in the store.
C4_StoreFailureAborts ==
    /\ \A i \in 1..Len(calls) :
        ~calls[i].ok => (i = Len(calls) /\ trickle.pc = "failed")
    /\ trickle.pc = "failed"
        => /\ trickle.info = None
           /\ calls # <<>> /\ ~calls[Len(calls)].ok
           /\ \A i \in 1..(Len(calls) - 1) :
                /\ calls[i].k \in DOMAIN store
                /\ store[calls[i].k] = calls[i].block
           /\ ~IsRootCid(calls[Len(calls)].k)
                => /\ Len(calls) + Len(chunks) = Len(trickle.input)
                   /\ \A k \in DOMAIN store : ~IsRootCid(k)

\* the put of the second of three chunks failed after the first was stored
C4_Witness ==
    /\ trickle.pc = "failed"
    /\ Len(trickle.input) = 3
    /\ Len(calls) = 2
    /\ Len(chunks) = 1
    /\ Cardinality(DOMAIN store) = 1

-----------------------------------------------------------------------------
(* More properties of the Quarry, checked under Spec *)

Injective(f) == \A a, b \in DOMAIN f : f[a] = f[b] => a = b

\* C11: over opens, reopens and allocations the persisted last_pid never
\* decreases and every committed allocation raises it to the id it assigns,
\* an id no object had and no page was listed with; no two pages share an
\* id, and no page has id 1, which holds the Index.
C11_PageIdsIncrease ==
    [][LET old == PersistedIndex(heap)
           new == PersistedIndex(heap')
       IN  /\ new.last_pid >= old.last_pid
           /\ \A lo \in DOMAIN old.pages :
                lo \in DOMAIN new.pages /\ new.pages[lo] = old.pages[lo]
           /\ Injective(new.pages)
           /\ INDEX_OBJECT_ID \notin PageIds(new)
           /\ (last'.op = "open" /\ last'.alloc /\ last'.committed /\ status' # status)
                => /\ new.last_pid > old.last_pid
                   /\ PageIds(new) \ PageIds(old) = {new.last_pid}
                   /\ HeapRead(heap, new.last_pid) = None
                   /\ index' = new]_vars

\* a store whose first allocation failed once was bootstrapped at the next
\* open, closed and opened again
C11_Witness ==
    /\ origin = "fresh"
    /\ last.op = "open" /\ last.res = "ok" /\ ~last.alloc
    /\ index.last_pid = 3 /\ PageIds(index) = {3}
    /\ dead >= 1

-----------------------------------------------------------------------------
(* Two runs of the DagBuilder, checked under SpecTwin *)

-----------------------------------------------------------------------------
(* More properties of the ChunkReader, checked under SpecChunk *)

\* C13 as stated: while the iteration runs, the remaining-byte count that
\* size_hint divides is the declared content size minus the bytes yielded so
\* far, and the subtraction in next never underflows.
C13_RemainingNeverUnderflows ==
    /\ cr.res # "panic"
    /\ cr.res \in {"new", "some"}
         => /\ rem_size = content_size - Len(Concat(yielded))
            /\ SizeHint(rem_size, chunk_size)[1]
                 = (content_size - Len(Concat(yielded))) \div chunk_size

-----------------------------------------------------------------------------
(* The Index and the pages, checked under Spec *)

\* C14: on a heap that the Quarry itself has built, every object id listed in
\* the persisted Index has a page object in the heap, and while the handle is
\* open the in-memory Index is the persisted Index.
C14_IndexAndPagesAgree ==
    origin = "fresh"
    => /\ \A id \in PageIds(PersistedIndex(heap)) : HeapRead(heap, id) # None
       /\ status = "open" => index = PersistedIndex(heap)

\* an open store after a write that ran the inline maintenance
C14_Witness ==
    /\ origin = "fresh"
    /\ status = "open"
    /\ last.op \in {"put_keyed", "delete_block"}
    /\ last.committed /\ last.maint
    /\ PageIds(PersistedIndex(heap)) # {}

\* the keys a caller can route: those of the Cids and the empty key
RouteKeys == KeyBytes \cup {<<>>}

\* id is the page of the entry of ix with the greatest low bound <= key
IsGreatestLowBound(ix, key, id) ==
    \E lo \in DOMAIN ix.pages :
        /\ LexLeq(lo, key)
        /\ ix.pages[lo] = id
        /\ \A o \in DOMAIN ix.pages : LexLeq(o, key) => LexLeq(o, lo)

\* C15: on a heap the Quarry has built, an open handle has an Index entry at
\* the empty key, so every key routes, to the entry with the greatest low
\* bound <= key; once the first page is there no step changes the persisted
\* Index, an open handle keeps its Index, and the page a write changes is the
\* page its key routes to, so get reads the page the last write wrote.
C15_RoutingIsTotalAndStable ==
    [][origin = "fresh"
        => /\ status' = "open"
             => /\ <<>> \in DOMAIN index'.pages
                /\ \A k \in RouteKeys :
                     /\ PidForKey(index', k) # None
                     /\ IsGreatestLowBound(index', k, PidForKey(index', k)[1])
                     /\ PidForKey(PersistedIndex(heap'), k) = PidForKey(index', k)
           /\ PageIds(PersistedIndex(heap)) # {}
             => PersistedIndex(heap') = PersistedIndex(heap)
           /\ (status = "open" /\ status' = "open")
             => /\ index' = index
                /\ \A id \in ObjectIds :
                     heap'[id] # heap[id] => Some(id) = PidForKey(index', last'.key)]_vars

\* a get served from the page that an earlier put of the same key wrote,
\* after the handle was closed and opened again
C15_Witness ==
    /\ origin = "fresh"
    /\ status = "open"
    /\ dead >= 2
    /\ last.op = "get" /\ last.res = "ok" /\ last.val # None
    /\ ~(NeedsBootstrap(index))

-----------------------------------------------------------------------------
(* What a call writes, checked under Spec *)

\* C16: a put_keyed or delete_block on key k changes at most one heap object,
\* the page k routes to, superseding one version; it leaves the Index object,
\* Index.pages and last_pid as they are, allocates nothing, and leaves the
\* value of every other key as it is.  get changes nothing in the heap.
C16_WriteTouchesOnePage ==
    [][/\ last'.op \in {"put_keyed", "delete_block"}
         => /\ heap'[INDEX_OBJECT_ID] = heap[INDEX_OBJECT_ID]
            /\ index' = index
            /\ PersistedIndex(heap') = PersistedIndex(heap)
            /\ ~last'.alloc
            /\ LiveObjects(heap') = LiveObjects(heap)
            /\ \A id \in ObjectIds :
                 heap'[id] # heap[id] => Some(id) = PidForKey(index, last'.key)
            /\ (last'.committed /\ ~last'.maint) => dead' = dead + 1
            /\ ~last'.committed => heap' = heap /\ dead' = dead
            /\ \A k \in KeyBytes \ {last'.key} :
                 GetValue(heap', index', k) = GetValue(heap, index, k)
       /\ last'.op = "get"
         => heap' = heap /\ dead' = dead /\ index' = index]_vars

\* a put has been committed while the other key holds a block
C16_Witness ==
    /\ last.op = "put_keyed" /\ last.res = "ok" /\ last.committed
    /\ \E k \in KeyBytes \ {last.key} :
         GetValue(heap, index, k) \in { Some(b) : b \in Blocks }

-----------------------------------------------------------------------------
(* The order of the store calls of trickle, checked under SpecDag *)

\* C17: the put_keyed calls of trickle are one per chunk in chunk order, each
\* made before the next chunk is pulled, then one for the root once the
\* sequence is exhausted; when the root is put, the block of every chunk, and
\* so of every link of the root, is already in the store.
C17_LeavesBeforeRoot ==
    LET P == Len(trickle.input)
        N == Len(calls)
        pulled == P - Len(chunks)
    IN  /\ N <= P + 1
        /\ pulled <= N /\ N <= pulled + 1
        /\ \A i \in 1..N :
             i <= P => /\ calls[i].k = NewV1(85, Sha256(trickle.input[i]))
                       /\ calls[i].block = trickle.input[i]
        /\ N = pulled + 1
             => /\ chunks = <<>>
                /\ IsRootCid(calls[N].k)
                /\ \A i \in 1..P :
                     /\ calls[i].ok
                     /\ calls[i].k \in DOMAIN store
                     /\ store[calls[i].k] = trickle.input[i]
                /\ LET root == DecodeNode(calls[N].block)
                   IN  /\ Len(root.links) = P
                       /\ \A j \in 1..Len(root.links) :
                            /\ root.links[j].cid = calls[j].k
                            /\ root.links[j].cid \in DOMAIN store

\* the root was put fourth, after the three leaves
C17_Witness ==
    /\ Len(trickle.input) = 3
    /\ Len(calls) = 4
    /\ calls[4].ok /\ IsRootCid(calls[4].k)
    /\ trickle.input[1] # trickle.input[2]
    /\ trickle.input[2] # trickle.input[3]

-----------------------------------------------------------------------------
(* Callers that are not serialized, checked under SpecConc *)

\* where in the log of reads and commits a step of a thread stands
LogPos(t, ev) == CHOOSE i \in 1..Len(writers.log) : writers.log[i] = <<t, ev>>

\* both calls have returned Ok, a having committed before b
BothOk(a, b) ==
    /\ a # b
    /\ writers.call[a].res = "ok" /\ writers.call[b].res = "ok"
    /\ LogPos(a, "commit") < LogPos(b, "commit")

\* C18: nothing in the Quarry keeps two write calls on one handle apart.
\* When both return Ok, the later commit's change is in the store, and the
\* earlier commit's change to another key is in the store only if the later
\* call read its page after that commit; if it read before, the earlier
\* change is overwritten (get returns what it did before both calls, None).
C18_LostUpdateIffInterleaved ==
    \A a, b \in Threads :
        BothOk(a, b)
        => LET ca == writers.call[a]
               cb == writers.call[b]
           IN  /\ GetValue(heap, index, cb.key) = cb.value
               /\ ca.key # cb.key
                    => GetValue(heap, index, ca.key)
                         = IF LogPos(b, "read") > LogPos(a, "commit")
                           THEN ca.value ELSE None

\* two puts of different keys have both returned Ok and get of the key of
\* the first returns None
C18_Witness ==
    \E a, b \in Threads :
        /\ BothOk(a, b)
        /\ writers.call[a].value # None /\ writers.call[b].value # None
        /\ writers.call[a].key # writers.call[b].key
        /\ GetValue(heap, index, writers.call[a].key) = None
        /\ GetValue(heap, index, writers.call[b].key) = writers.call[b].value

-----------------------------------------------------------------------------
(* Errors and reopening, checked under Spec *)

\* C19 as stated: a put_keyed or delete_block that returns an error leaves
\* what get returns for every key as it was before the call.
C19_FailedWriteChangesNothing ==
    [][(last'.op \in {"put_keyed", "delete_block"}
          /\ last'.res \in {"read_err", "batch_err", "maint_err"})
        => \A k \in KeyBytes :
             GetValue(heap', index', k) = GetValue(heap, index, k)]_vars

\* C20: an open on a heap whose persisted Index has a page allocates nothing
\* and writes nothing; when it returns Ok the handle has the persisted pages
\* and last_pid, and get returns for every key what it returned through the
\* handle that was closed (the close and the time the store stays closed
\* change nothing in the heap).
C20_ReopenLoadsTheIndex ==
    [][/\ (status = "closed" /\ last'.op = "open"
             /\ PageIds(PersistedIndex(heap)) # {})
         => /\ ~last'.alloc
            /\ heap' = heap /\ dead' = dead
            /\ last'.res \in {"ok", "open_err", "read_err"}
            /\ last'.res = "ok"
                 => /\ status' = "open"
                    /\ index'.pages = PersistedIndex(heap).pages
                    /\ index'.last_pid = PersistedIndex(heap).last_pid
                    /\ SerializeIndex(index') = HeapRead(heap, INDEX_OBJECT_ID)[1]
                    /\ \A k \in KeyBytes :
                         GetValue(heap', index', k)
                           = GetValue(heap, PersistedIndex(heap), k)
       /\ last'.op = "close"
         => /\ heap' = heap
            /\ \A k \in KeyBytes :
                 GetValue(heap', PersistedIndex(heap'), k) = GetValue(heap, index, k)]_vars

\* a handle opened again, with no allocation, on a store that holds a block
C20_Witness ==
    /\ status = "open"
    /\ last.op = "open" /\ last.res = "ok" /\ ~last.alloc
    /\ origin = "fresh"
    /\ \E k \in KeyBytes : GetValue(heap, index, k) \in { Some(b) : b \in Blocks }

====
